---------------------------- MODULE Spec2Model ----------------------------
(***************************************************************************)
(* A model of the agentic-RAG workshop scripts:                            *)
(*   utils.py         the memoized embedding model, the Qdrant collection  *)
(*                    helpers and the ingestion helpers;                   *)
(*   tools.py         the retrieval tool handed to the agent;              *)
(*   main.py          prepare_data, the structured-answer schema and main; *)
(*   async_things.py  three simulated API calls gathered on one event loop.*)
(*                                                                         *)
(* Three specifications share the module.  Spec is the single-threaded     *)
(* program (utils.py, tools.py, main.py).  SpecThreads runs                *)
(* get_transformer_model step by step in several threads.  SpecAsync is    *)
(* async_things.py on the asyncio event loop.                              *)
(***************************************************************************)
EXTENDS Integers, Sequences, FiniteSets, TLC

VARIABLES
    transformer_model,  \* utils.py: the process-wide handle (None until loaded)
    constructed,        \* number of SentenceTransformer(...) constructions so far
    handles,            \* the handles the first and the latest completed call returned
    qdrant,             \* the store behind qdrant_client: a list of collections
    pc,                 \* where the single-threaded program is
    call,               \* the call that completed last: its arguments and outcome
    prep,               \* prepare_data's locals and the steps it has completed
    tool,               \* the retrieval tool's locals while a tool call is returning
    mode,               \* SpecThreads: "serial" or "concurrent" callers
    th,                 \* SpecThreads: per thread, its position and locals
    aio                 \* SpecAsync: the script's position, event loop and output

vars == <<transformer_model, constructed, handles, qdrant, pc, call, prep,
          tool, mode, th, aio>>

(***************************************************************************)
(* Bounds of the model.                                                    *)
(***************************************************************************)
\* the longest chunk list a document yields
MaxChunks == 6
\* the number of threads of SpecThreads
NumThreads == 2
\* the most seconds one event-loop callback may take in SpecAsync
MaxStepTime == 1

(***************************************************************************)
(* Program constants.                                                      *)
(***************************************************************************)
\* utils.py:7, the unset handle
None == 0
\* main.py:62
COLLECTION_NAME == "agentic_ai_power_workshop"
\* tools.py:18, query_points(..., limit=5)
Limit == 5
\* async_things.py:15, range(3)
NumCalls == 3
\* async_things.py:10, asyncio.sleep(2)
SleepSeconds == 2

\* collection names a caller may pass
Names == {COLLECTION_NAME, "other"}
\* chunk texts, the three-chunk document of the end-to-end scenario, and the
\* query strings the agent may pass to the tool
Texts == {"A", "B"}
ScenarioChunks == <<"A", "B", "C">>
Queries == {"A", "B", "C"}

(***************************************************************************)
(* The embedding model.  all-mpnet-base-v2 ends in a normalisation layer,  *)
(* so encode() yields unit vectors, and distinct texts get distinct        *)
(* vectors.  Vectors are written scaled by 5 (every vector below has       *)
(* squared norm 25), so a cosine similarity is Dot / 25.                   *)
(***************************************************************************)
encode(text) ==
    CASE text = "A" -> <<5, 0>>
      [] text = "B" -> <<3, 4>>
      [] text = "C" -> <<-4, 3>>
      [] OTHER      -> <<0, 5>>

Dot(u, v) == u[1] * v[1] + u[2] * v[2]

\* Distance.COSINE of two unit vectors, in 25ths
Cosine(u, v) == Dot(u, v)

(***************************************************************************)
(* Python's str() of the float d/25, as the f-string of tools.py prints    *)
(* it: sign, integer part, point, and the shortest fraction ("1.0",        *)
(* "0.6", "-0.8", "0.36").                                                 *)
(***************************************************************************)
FloatStr(d) ==
    LET a    == IF d < 0 THEN -d ELSE d
        h    == a * 4                   \* hundredths
        frac == h % 100
    IN  (IF d < 0 THEN "-" ELSE "")
        \o ToString(h \div 100) \o "."
        \o (IF frac % 10 = 0 THEN ToString(frac \div 10)
            ELSE (IF frac < 10 THEN "0" ELSE "") \o ToString(frac))

(***************************************************************************)
(* utils.py: the memoized embedding model, as one call of a single caller. *)
(* tm is the global before the call and n the constructions so far; a      *)
(* fresh construction gets the next handle.                                *)
(***************************************************************************)
\* faulty variant: the None check is missing, every call constructs
get_transformer_model_reloading(tm, n) ==
    [ret |-> n + 1, tm |-> n + 1, n |-> n + 1]

get_transformer_model(tm, n) ==
    IF tm = None
    THEN [ret |-> n + 1, tm |-> n + 1, n |-> n + 1]
    ELSE [ret |-> tm, tm |-> tm, n |-> n]

\* the handle the first completed call returned, after a call returning h
FirstHandle(fh, h) == IF fh = None THEN h ELSE fh

(***************************************************************************)
(* The Qdrant server behind qdrant_client, as the calls of utils.py and    *)
(* tools.py use it.  q is a list of collections [name, points]; a point is *)
(* [id, vector, payload].  up says whether the server answers; a call to   *)
(* an unreachable server raises and changes nothing.                       *)
(***************************************************************************)
Str(s) == [type |-> "str", name |-> s]

CollectionDescription(name) == [type |-> "CollectionDescription", name |-> name]

\* qdrant_client.get_collections().collections: a list of CollectionDescription
get_collections(q) == [i \in 1..Len(q) |-> CollectionDescription(q[i].name)]

\* Python's x in list: some element equals x
PyIn(x, list) == \E i \in 1..Len(list) : list[i] = x

HasCollection(q, name) == \E i \in 1..Len(q) : q[i].name = name

PointsOf(q, name) ==
    IF HasCollection(q, name)
    THEN (CHOOSE c \in {q[i] : i \in 1..Len(q)} : c.name = name).points
    ELSE {}

\* qdrant_client.create_collection: the server refuses a name it already has
create_collection(q, name) ==
    IF HasCollection(q, name)
    THEN [raised |-> "UnexpectedResponse", qdrant |-> q]
    ELSE [raised |-> "", qdrant |-> Append(q, [name |-> name, points |-> {}])]

PointStruct(id, vector, payload) ==
    [id |-> id, vector |-> vector, payload |-> payload]

\* the ids of a list of points
Ids(points) == {points[i].id : i \in 1..Len(points)}

\* qdrant_client.upload_points: an uploaded point replaces the point of its id
upload_points(q, name, points) ==
    IF ~HasCollection(q, name)
    THEN [raised |-> "UnexpectedResponse", qdrant |-> q]
    ELSE [raised |-> "",
          qdrant |-> [i \in 1..Len(q) |->
              IF q[i].name # name THEN q[i]
              ELSE [q[i] EXCEPT !.points =
                      {p \in @ : p.id \notin Ids(points)}
                      \cup {points[j] : j \in 1..Len(points)}]]]

\* the stored points as the server scores them against a query vector
Scored(S, qv) ==
    {[id |-> p.id, score |-> Cosine(qv, p.vector), payload |-> p.payload] : p \in S}

\* every list of the k best-scoring points of S, best first; the server
\* fixes no order among points of equal score
RECURSIVE TopK(_, _)
TopK(S, k) ==
    IF k = 0 \/ S = {} THEN {<<>>}
    ELSE LET best == {p \in S : \A o \in S : o.score <= p.score}
         IN  UNION {{<<p>> \o r : r \in TopK(S \ {p}, k - 1)} : p \in best}

\* qdrant_client.query_points(...).points: the lists the server may answer
query_points(q, name, qv, limit) == TopK(Scored(PointsOf(q, name), qv), limit)

(***************************************************************************)
(* utils.py: the collection and ingestion helpers.  Each takes the state   *)
(* it reads (the store q, the model global tm, the constructions n) and    *)
(* returns what it leaves: ret is the return value or the exception that   *)
(* escapes, h the handle its get_transformer_model call returned (None     *)
(* when it made none).                                                     *)
(***************************************************************************)
create_qdrant_collection(q, tm, n, name, up) ==
    IF ~up
    THEN [ret |-> "ConnectionError", invoked |-> FALSE, qdrant |-> q,
          tm |-> tm, n |-> n, h |-> None]
    ELSE LET collections == get_collections(q)
         IN  IF PyIn(Str(name), collections)
             THEN [ret |-> "True", invoked |-> FALSE, qdrant |-> q,
                   tm |-> tm, n |-> n, h |-> None]
             ELSE LET m == get_transformer_model(tm, n)
                      r == create_collection(q, name)
                  IN  [ret |-> IF r.raised = "" THEN "True" ELSE r.raised,
                       invoked |-> TRUE, qdrant |-> r.qdrant,
                       tm |-> m.tm, n |-> m.n, h |-> m.ret]

EmbeddingsAndText(text, embedding) == [text |-> text, embedding |-> embedding]

\* faulty variant: each record is put in front of the list
RECURSIVE EmbedLoop_prepending(_, _, _)
EmbedLoop_prepending(texts, i, acc) ==
    IF i > Len(texts) THEN acc
    ELSE EmbedLoop_prepending(texts, i + 1,
             <<EmbeddingsAndText(texts[i], encode(texts[i]))>> \o acc)

\* the for loop of get_embeddings_and_text, from the i-th text on
RECURSIVE EmbedLoop(_, _, _)
EmbedLoop(texts, i, acc) ==
    IF i > Len(texts) THEN acc
    ELSE EmbedLoop(texts, i + 1,
                   Append(acc, EmbeddingsAndText(texts[i], encode(texts[i]))))

get_embeddings_and_text(texts, tm, n) ==
    LET m == get_transformer_model(tm, n)
    IN  [ret |-> EmbedLoop(texts, 1, <<>>), tm |-> m.tm, n |-> m.n, h |-> m.ret]

\* faulty variant: ids count from 1
EnumeratedPoints_from_one(embeddings_and_text) ==
    [i \in 1..Len(embeddings_and_text) |->
        PointStruct(i, embeddings_and_text[i].embedding,
                    [text |-> embeddings_and_text[i].text])]

\* the list comprehension of ingest_vectors_in_qdrant: enumerate() counts from 0
EnumeratedPoints(embeddings_and_text) ==
    [i \in 1..Len(embeddings_and_text) |->
        PointStruct(i - 1, embeddings_and_text[i].embedding,
                    [text |-> embeddings_and_text[i].text])]

ingest_vectors_in_qdrant(q, name, embeddings_and_text, up) ==
    IF ~up THEN [raised |-> "ConnectionError", qdrant |-> q]
    ELSE upload_points(q, name, EnumeratedPoints(embeddings_and_text))

(***************************************************************************)
(* tools.py: search_in_qdrant's formatting of the points of one answer.    *)
(***************************************************************************)
\* faulty variant: the text is printed with its payload key
FormatResult_payload(result) ==
    "Score: " \o FloatStr(result.score) \o ", Text: text=" \o result.payload.text

FormatResult(result) ==
    "Score: " \o FloatStr(result.score) \o ", Text: " \o result.payload.text

FormatResults(points) == [i \in 1..Len(points) |-> FormatResult(points[i])]

\* faulty variant: the collection name is encoded in place of the query
search_in_qdrant_name_encoded(q, tm, n, name, query, up) ==
    LET m == get_transformer_model(tm, n)
        out(raised, points) ==
            [raised |-> raised, points |-> points, results_ |-> FormatResults(points),
             tm |-> m.tm, n |-> m.n, h |-> m.ret]
    IN  IF ~up THEN {out("ConnectionError", <<>>)}
        ELSE IF ~HasCollection(q, name) THEN {out("UnexpectedResponse", <<>>)}
        ELSE {out("", points) : points \in query_points(q, name, encode(name), Limit)}

\* search_in_qdrant(query) of get_prepared_collection(name): the outcomes the
\* store allows.  The query argument is evaluated, so the model is loaded,
\* before the store is asked.
search_in_qdrant(q, tm, n, name, query, up) ==
    LET m == get_transformer_model(tm, n)
        out(raised, points) ==
            [raised |-> raised, points |-> points, results_ |-> FormatResults(points),
             tm |-> m.tm, n |-> m.n, h |-> m.ret]
    IN  IF ~up THEN {out("ConnectionError", <<>>)}
        ELSE IF ~HasCollection(q, name) THEN {out("UnexpectedResponse", <<>>)}
        ELSE {out("", points) : points \in query_points(q, name, encode(query), Limit)}

(***************************************************************************)
(* main.py: the structured answer.  A raw response of the hosted agent is  *)
(* a JSON object; a JSON value is a string s, a number x (in tenths) or    *)
(* null.                                                                   *)
(***************************************************************************)
JsonStr(s) == [type |-> "str", s |-> s, x |-> 0]
JsonNum(x) == [type |-> "number", s |-> "", x |-> x]
JsonNull == [type |-> "null", s |-> "", x |-> 0]

\* the numeric strings among the strings the model uses, in tenths
NumericStr == {"0.9", "1.5"}
ParseFloat(s) == IF s = "0.9" THEN 9 ELSE 15

\* pydantic's validation of a field annotated str
ValidStr(v) == v.type = "str"

\* pydantic's validation of a field annotated float: a number, or a string
\* that parses as one; Field(...) of main.py gives no bound
ValidFloat(v) == v.type = "number" \/ (v.type = "str" /\ v.s \in NumericStr)

FloatOf(v) == IF v.type = "number" THEN v.x ELSE ParseFloat(v.s)

NoResponse == [answer |-> "", confidence |-> 0]

\* AnswerAndConfidence.model_validate(raw): the instance, or ValidationError
AnswerAndConfidence(raw) ==
    IF ValidStr(raw.answer) /\ ValidFloat(raw.confidence)
    THEN [raised |-> "",
          value |-> [answer |-> raw.answer.s, confidence |-> FloatOf(raw.confidence)]]
    ELSE [raised |-> "ValidationError", value |-> NoResponse]

\* the raw responses the hosted agent may send
RawValues ==
    {JsonStr("I am sorry, I could not find the answer."), JsonStr("1.5"),
     JsonNull, JsonNum(-5), JsonNum(0), JsonNum(10), JsonNum(15)}
RawResponses == [answer : RawValues, confidence : RawValues]

(***************************************************************************)
(* The single-threaded program: a caller that, one call at a time, calls   *)
(* the helpers of utils.py, prepare_data or main.                          *)
(***************************************************************************)
ChunkLists == UNION {[1..k -> Texts] : k \in 0..MaxChunks} \cup {ScenarioChunks}

NoCall ==
    [op |-> "", name |-> "", existed |-> FALSE, invoked |-> FALSE, ret |-> "",
     texts |-> <<>>, records |-> <<>>, raw |-> [answer |-> JsonNull, confidence |-> JsonNull],
     response |-> NoResponse]

NoPrep == [steps |-> <<>>, chunks |-> <<>>, records |-> <<>>, failed |-> ""]

NoTool == [query |-> "", points |-> <<>>, results_ |-> <<>>, raised |-> ""]

NoThreads == [t \in {} |-> 0]

NoLoop == [at |-> "unused"]

InitModel ==
    /\ transformer_model = None
    /\ constructed = 0
    /\ handles = [first |-> None, last |-> None]

Init ==
    /\ InitModel
    /\ qdrant = <<>>
    /\ pc = "idle"
    /\ call = NoCall
    /\ prep = NoPrep
    /\ tool = NoTool
    /\ mode = "serial"
    /\ th = NoThreads
    /\ aio = NoLoop

\* the effect on the model global of a helper that returned r
ApplyModel(r) ==
    /\ transformer_model' = r.tm
    /\ constructed' = r.n
    /\ handles' = IF r.h = None THEN handles
                  ELSE [first |-> FirstHandle(handles.first, r.h), last |-> r.h]

ModelUnchanged == UNCHANGED <<transformer_model, constructed, handles>>

OtherSpecsUnchanged == UNCHANGED <<mode, th, aio>>

\* a direct call of get_transformer_model()
CallGetModel ==
    /\ pc = "idle"
    /\ LET m == get_transformer_model(transformer_model, constructed)
       IN  /\ ApplyModel([tm |-> m.tm, n |-> m.n, h |-> m.ret])
           /\ call' = [NoCall EXCEPT !.op = "get_transformer_model"]
    /\ pc' = "returned"
    /\ UNCHANGED <<qdrant, prep, tool>>
    /\ OtherSpecsUnchanged

\* a direct call of create_qdrant_collection(name)
CallCreate(name, up) ==
    /\ pc = "idle"
    /\ LET r == create_qdrant_collection(qdrant, transformer_model, constructed, name, up)
       IN  /\ ApplyModel(r)
           /\ qdrant' = r.qdrant
           /\ call' = [NoCall EXCEPT !.op = "create_qdrant_collection",
                                     !.name = name,
                                     !.existed = HasCollection(qdrant, name),
                                     !.invoked = r.invoked,
                                     !.ret = r.ret]
    /\ pc' = "returned"
    /\ UNCHANGED <<prep, tool>>
    /\ OtherSpecsUnchanged

\* a direct call of
\* ingest_vectors_in_qdrant(COLLECTION_NAME, get_embeddings_and_text(texts))
CallIngest(texts, up) ==
    /\ pc = "idle"
    /\ LET e == get_embeddings_and_text(texts, transformer_model, constructed)
           r == ingest_vectors_in_qdrant(qdrant, COLLECTION_NAME, e.ret, up)
       IN  /\ ApplyModel(e)
           /\ qdrant' = r.qdrant
           /\ call' = [NoCall EXCEPT !.op = "ingest_vectors_in_qdrant",
                                     !.name = COLLECTION_NAME,
                                     !.existed = HasCollection(qdrant, COLLECTION_NAME),
                                     !.texts = IF r.raised = "" THEN texts ELSE <<>>,
                                     !.records = IF r.raised = "" THEN e.ret ELSE <<>>,
                                     !.ret = IF r.raised = "" THEN "None" ELSE r.raised]
    /\ pc' = "returned"
    /\ UNCHANGED <<prep, tool>>
    /\ OtherSpecsUnchanged

\* the caller goes on after a call returned or raised
Return ==
    /\ pc = "returned"
    /\ pc' = "idle"
    /\ call' = NoCall
    /\ ModelUnchanged
    /\ UNCHANGED <<qdrant, prep, tool>>
    /\ OtherSpecsUnchanged

(***************************************************************************)
(* main.py: prepare_data, one statement a step.  An exception of a         *)
(* statement is not caught, so it leaves prepare_data.                     *)
(***************************************************************************)
\* faulty variant: an exception of a statement is swallowed
PrepNext_swallowing(ok, next) == next

\* where prepare_data is after a statement that returned (ok) or raised
PrepNext(ok, next) == IF ok THEN next ELSE "prep_raised"

PrepareStart ==
    /\ pc = "idle"
    /\ pc' = "prep_create"
    /\ prep' = NoPrep
    /\ ModelUnchanged
    /\ UNCHANGED <<qdrant, call, tool>>
    /\ OtherSpecsUnchanged

\* create_qdrant_collection(COLLECTION_NAME)
PrepCreate(up) ==
    /\ pc = "prep_create"
    /\ LET r  == create_qdrant_collection(qdrant, transformer_model, constructed,
                                          COLLECTION_NAME, up)
           ok == r.ret = "True"
       IN  /\ ApplyModel(r)
           /\ qdrant' = r.qdrant
           /\ pc' = PrepNext(ok, "prep_chunk")
           /\ prep' = IF ok THEN [prep EXCEPT !.steps = Append(@, "create")]
                      ELSE [prep EXCEPT !.failed = r.ret]
    /\ UNCHANGED <<call, tool>>
    /\ OtherSpecsUnchanged

\* chunks = convert_pdf_to_chunks("HR-POLICIES-1-1-1.pdf"): the document
\* yields some list of chunks
PrepChunk(chunks) ==
    /\ pc = "prep_chunk"
    /\ pc' = PrepNext(TRUE, "prep_embed")
    /\ prep' = [prep EXCEPT !.steps = Append(@, "chunk"), !.chunks = chunks]
    /\ ModelUnchanged
    /\ UNCHANGED <<qdrant, call, tool>>
    /\ OtherSpecsUnchanged

\* the file is missing or unparseable
PrepChunkFails ==
    /\ pc = "prep_chunk"
    /\ pc' = PrepNext(FALSE, "prep_embed")
    /\ prep' = [prep EXCEPT !.failed = "ConversionError"]
    /\ ModelUnchanged
    /\ UNCHANGED <<qdrant, call, tool>>
    /\ OtherSpecsUnchanged

\* embeddings_and_text = get_embeddings_and_text(chunks)
PrepEmbed ==
    /\ pc = "prep_embed"
    /\ LET e == get_embeddings_and_text(prep.chunks, transformer_model, constructed)
       IN  /\ ApplyModel(e)
           /\ prep' = [prep EXCEPT !.steps = Append(@, "embed"), !.records = e.ret]
    /\ pc' = PrepNext(TRUE, "prep_upload")
    /\ UNCHANGED <<qdrant, call, tool>>
    /\ OtherSpecsUnchanged

\* encode() raises on some chunk: the records so far are lost with the frame
PrepEmbedFails ==
    /\ pc = "prep_embed"
    /\ prep.chunks # <<>>
    /\ LET m == get_transformer_model(transformer_model, constructed)
       IN  ApplyModel([tm |-> m.tm, n |-> m.n, h |-> m.ret])
    /\ pc' = PrepNext(FALSE, "prep_upload")
    /\ prep' = [prep EXCEPT !.failed = "RuntimeError"]
    /\ UNCHANGED <<qdrant, call, tool>>
    /\ OtherSpecsUnchanged

\* ingest_vectors_in_qdrant(COLLECTION_NAME, embeddings_and_text)
PrepUpload(up) ==
    /\ pc = "prep_upload"
    /\ LET r  == ingest_vectors_in_qdrant(qdrant, COLLECTION_NAME, prep.records, up)
           ok == r.raised = ""
       IN  /\ qdrant' = r.qdrant
           /\ pc' = PrepNext(ok, "prep_done")
           /\ prep' = IF ok THEN [prep EXCEPT !.steps = Append(@, "upload")]
                      ELSE [prep EXCEPT !.failed = r.raised]
    /\ ModelUnchanged
    /\ UNCHANGED <<call, tool>>
    /\ OtherSpecsUnchanged

\* prepare_data returns, or its exception reaches the caller
PrepareReturn ==
    /\ pc \in {"prep_done", "prep_raised"}
    /\ pc' = "idle"
    /\ prep' = NoPrep
    /\ ModelUnchanged
    /\ UNCHANGED <<qdrant, call, tool>>
    /\ OtherSpecsUnchanged

(***************************************************************************)
(* main.py: main awaits agent.run(question, response_format=               *)
(* AnswerAndConfidence).  The hosted agent calls the retrieval tool any    *)
(* number of times and then answers.                                       *)
(***************************************************************************)
MainStart ==
    /\ pc = "idle"
    /\ pc' = "agent"
    /\ ModelUnchanged
    /\ UNCHANGED <<qdrant, call, prep, tool>>
    /\ OtherSpecsUnchanged

\* the agent calls search_in_qdrant(query)
AgentCallsTool(query, up) ==
    /\ pc = "agent"
    /\ \E r \in search_in_qdrant(qdrant, transformer_model, constructed,
                                  COLLECTION_NAME, query, up) :
          /\ ApplyModel(r)
          /\ tool' = [query |-> query, points |-> r.points,
                      results_ |-> r.results_, raised |-> r.raised]
    /\ pc' = "tool"
    /\ UNCHANGED <<qdrant, call, prep>>
    /\ OtherSpecsUnchanged

\* the tool's result, or its error, goes back to the agent
ToolReturns ==
    /\ pc = "tool"
    /\ pc' = "agent"
    /\ tool' = NoTool
    /\ ModelUnchanged
    /\ UNCHANGED <<qdrant, call, prep>>
    /\ OtherSpecsUnchanged

\* the agent answers with raw, which is validated against AnswerAndConfidence
AgentResponds(raw) ==
    /\ pc = "agent"
    /\ LET v == AnswerAndConfidence(raw)
       IN  call' = [NoCall EXCEPT !.op = "main",
                                 !.raw = raw,
                                 !.ret = IF v.raised = "" THEN "None" ELSE v.raised,
                                 !.response = v.value]
    /\ pc' = "returned"
    /\ ModelUnchanged
    /\ UNCHANGED <<qdrant, prep, tool>>
    /\ OtherSpecsUnchanged

\* the hosted service is unreachable
AgentFails ==
    /\ pc = "agent"
    /\ call' = [NoCall EXCEPT !.op = "main", !.ret = "ServiceError"]
    /\ pc' = "returned"
    /\ ModelUnchanged
    /\ UNCHANGED <<qdrant, prep, tool>>
    /\ OtherSpecsUnchanged

Next ==
    \/ CallGetModel
    \/ \E name \in Names, up \in BOOLEAN : CallCreate(name, up)
    \/ \E texts \in ChunkLists, up \in BOOLEAN : CallIngest(texts, up)
    \/ Return
    \/ PrepareStart
    \/ \E up \in BOOLEAN : PrepCreate(up)
    \/ \E chunks \in ChunkLists : PrepChunk(chunks)
    \/ PrepChunkFails
    \/ PrepEmbed
    \/ PrepEmbedFails
    \/ \E up \in BOOLEAN : PrepUpload(up)
    \/ PrepareReturn
    \/ MainStart
    \/ \E query \in Queries, up \in BOOLEAN : AgentCallsTool(query, up)
    \/ ToolReturns
    \/ \E raw \in RawResponses : AgentResponds(raw)
    \/ AgentFails

Spec == Init /\ [][Next]_vars

(***************************************************************************)
(* Properties of the single-threaded program (Spec).                       *)
(***************************************************************************)
Stored == PointsOf(qdrant, COLLECTION_NAME)

Returned(op) == pc = "returned" /\ call.op = op

\* the points a list of records becomes: record i+1 under id i
PointsFor(records) ==
    {[id |-> i - 1, vector |-> records[i].embedding,
      payload |-> [text |-> records[i].text]] : i \in 1..Len(records)}

\* C1: a call of create_qdrant_collection(name) made while the store already
\* holds a collection of that name (as the second of two calls in a row is)
\* returns True without raising, does not invoke the store's create
\* operation, and leaves exactly one collection of that name.
C1_CreateIdempotent ==
    (Returned("create_qdrant_collection") /\ call.existed
        /\ call.ret # "ConnectionError")
    => /\ call.ret = "True"
       /\ ~call.invoked
       /\ Cardinality({i \in 1..Len(qdrant) : qdrant[i].name = call.name}) = 1

\* C2: in the single-threaded program the model is constructed at most once,
\* every call returns the handle the first call returned, and a handle once
\* set is never reset or replaced.
C2_ModelMemoized ==
    /\ [](/\ constructed <= 1
          /\ handles.last = handles.first
          /\ handles.first # None => transformer_model = handles.first)
    /\ [][transformer_model # None => transformer_model' = transformer_model]_vars

\* C2 witness: both collections were created and a tool call answered, which
\* takes three calls of get_transformer_model, with one construction.
C2_Witness ==
    /\ pc = "tool" /\ tool.raised = ""
    /\ Len(qdrant) = 2
    /\ constructed = 1 /\ handles.last = 1

IngestReturned == Returned("ingest_vectors_in_qdrant") /\ call.ret = "None"

\* C3 as claimed: after any ingest of the records of N chunks the collection
\* holds exactly N points, ids 0..N-1, point i carrying record i.
C3_UploadExactlyN ==
    IngestReturned
    => /\ Len(call.records) = Len(call.texts)
       /\ \A i \in 1..Len(call.texts) : call.records[i].text = call.texts[i]
       /\ Stored = PointsFor(call.records)

\* C3 as amended: get_embeddings_and_text yields one record per chunk in
\* chunk order; after ingesting the N records the points with ids 0..N-1 are
\* exactly the N records, and when the collection held no point with an id
\* of N or more before the call it then holds exactly those N points.
C3_UploadIntoFresh ==
    [][(pc = "idle" /\ IngestReturned')
       => LET N   == Len(call'.texts)
              New == PointsOf(qdrant', COLLECTION_NAME)
              Old == PointsOf(qdrant, COLLECTION_NAME)
          IN  /\ Len(call'.records) = N
              /\ \A i \in 1..N :
                    /\ call'.records[i].text = call'.texts[i]
                    /\ call'.records[i].embedding = encode(call'.texts[i])
              /\ {p \in New : p.id \in 0..(N - 1)} = PointsFor(call'.records)
              /\ Cardinality(PointsFor(call'.records)) = N
              /\ (\A p \in Old : p.id < N) => New = PointsFor(call'.records)]_vars

\* C3 witness: three chunks were ingested and the collection holds three points.
C3_Witness ==
    /\ IngestReturned
    /\ Len(call.texts) = 3
    /\ Cardinality(Stored) = 3

PrepareSteps == <<"create", "chunk", "embed", "upload">>

InPrepare == pc \in {"prep_create", "prep_chunk", "prep_embed", "prep_upload",
                     "prep_done", "prep_raised"}

\* C4: prepare_data completes its steps in the order create, chunk, embed,
\* upload, each starting only after the one before completed; a failed step
\* ends the run with no later step and no retry; the collection's points
\* change only in the upload step, after the three steps before it succeeded.
C4_PipelineOrder ==
    /\ [](InPrepare =>
            /\ prep.steps = SubSeq(PrepareSteps, 1, Len(prep.steps))
            /\ pc = "prep_create" => prep.steps = <<>>
            /\ pc = "prep_chunk" => prep.steps = SubSeq(PrepareSteps, 1, 1)
            /\ pc = "prep_embed" => prep.steps = SubSeq(PrepareSteps, 1, 2)
            /\ pc = "prep_upload" => prep.steps = SubSeq(PrepareSteps, 1, 3)
            /\ pc = "prep_done" => prep.steps = PrepareSteps
            /\ pc = "prep_raised" <=> prep.failed # ""
            /\ pc = "prep_upload" => /\ Len(prep.records) = Len(prep.chunks)
                                     /\ HasCollection(qdrant, COLLECTION_NAME))
    /\ [][InPrepare =>
            /\ pc = "prep_raised" =>
                  /\ pc' \in {"prep_raised", "idle"}
                  /\ qdrant' = qdrant
                  /\ prep'.steps \in {prep.steps, <<>>}
            /\ PointsOf(qdrant', COLLECTION_NAME) # PointsOf(qdrant, COLLECTION_NAME)
                  => /\ pc = "prep_upload" /\ pc' = "prep_done"
                     /\ prep.steps = SubSeq(PrepareSteps, 1, 3)]_vars

\* C4 witness: embedding failed after create and chunk succeeded; the run is
\* over and nothing was uploaded.
C4_Witness ==
    /\ pc = "prep_raised"
    /\ prep.steps = <<"create", "chunk">>
    /\ Len(prep.chunks) = 3
    /\ Stored = {}

ToolAnswered == pc = "tool" /\ tool.raised = ""

Min(a, b) == IF a < b THEN a ELSE b
Max(a, b) == IF a < b THEN b ELSE a

\* what Python prints for the similarities the model's vectors can have
PrintedScore(d) ==
    CASE d = 25  -> "1.0"
      [] d = 15  -> "0.6"
      [] d = 0   -> "0.0"
      [] d = -20 -> "-0.8"
      [] OTHER   -> "?"

\* C5: a tool call that answers returns min(5, number of stored points)
\* strings, one per point the store returned and in its order, which is by
\* descending score; each reads "Score: <score>, Text: <payload text>" for
\* that point's score against the query and its text; the call leaves the
\* store as it was.
C5_SearchResultShape ==
    /\ [](ToolAnswered =>
            /\ Len(tool.results_) = Min(Limit, Cardinality(Stored))
            /\ Len(tool.points) = Len(tool.results_)
            /\ \A i \in 1..Len(tool.points) :
                  /\ \E p \in Stored :
                        /\ p.id = tool.points[i].id
                        /\ p.payload = tool.points[i].payload
                        /\ tool.points[i].score = Cosine(encode(tool.query), p.vector)
                  /\ tool.results_[i] =
                        "Score: " \o PrintedScore(tool.points[i].score)
                        \o ", Text: " \o tool.points[i].payload.text
                  /\ \A j \in 1..Len(tool.points) :
                        /\ i < j => tool.points[i].score >= tool.points[j].score
                        /\ i # j => tool.points[i].id # tool.points[j].id)
    /\ [][pc' = "tool" => qdrant' = qdrant]_vars

\* C5 witness: six points are stored and the tool returned five strings.
C5_Witness ==
    /\ ToolAnswered
    /\ Cardinality(Stored) = 6
    /\ Len(tool.results_) = 5

\* C6 as claimed: a query whose vector equals the vector of a stored point
\* returns that very point first, for every such point.
C6_QueriedPointFirst ==
    ToolAnswered =>
        \A p \in Stored :
            p.vector = encode(tool.query) => tool.points[1].id = p.id

\* C6 as amended: a query whose vector equals the vector of a stored point
\* returns first a point of maximal score, which is that point's score; the
\* point itself is first when no other stored point has its vector.  For the
\* stored chunks A, B, C the query B returns B first.
C6_MaximalScoreFirst ==
    ToolAnswered =>
        /\ \A p \in Stored :
              p.vector = encode(tool.query) =>
                /\ tool.points[1].score = Cosine(encode(tool.query), p.vector)
                /\ \A o \in Stored :
                      Cosine(encode(tool.query), o.vector) <= tool.points[1].score
                /\ (\A o \in Stored : o.vector = p.vector => o = p)
                      => tool.points[1].id = p.id
        /\ (Stored = PointsFor(EmbedLoop(ScenarioChunks, 1, <<>>)) /\ tool.query = "B")
              => /\ tool.points[1].payload.text = "B"
                 /\ \A i \in 1..3 : tool.points[1].score >= tool.points[i].score

\* C6 witness: A, B, C are stored and the query B returned B first.
C6_Witness ==
    /\ ToolAnswered
    /\ tool.query = "B"
    /\ {p.payload.text : p \in Stored} = {"A", "B", "C"}
    /\ Cardinality(Stored) = 3
    /\ tool.points[1].payload.text = "B"

\* C7: a response that main obtains and that passes the AnswerAndConfidence
\* schema has a confidence in [0, 1] (0..10 tenths).
C7_ConfidenceInUnitRange ==
    (Returned("main") /\ call.ret = "None")
    => call.response.confidence \in 0..10

\* C8: ingesting N records into a collection that holds M points (ids
\* 0..M-1) puts the N records under ids 0..N-1, replacing what was there,
\* keeps the old points with ids N..M-1, and leaves max(M, N) points.
C8_ReingestOverwrites ==
    [][(pc = "idle" /\ IngestReturned')
       => LET N   == Len(call'.records)
              New == PointsOf(qdrant', COLLECTION_NAME)
              Old == PointsOf(qdrant, COLLECTION_NAME)
              M   == Cardinality(Old)
          IN  /\ {p.id : p \in Old} = 0..(M - 1)
              /\ \A i \in 0..(N - 1) :
                    {p \in New : p.id = i}
                      = {[id |-> i, vector |-> call'.records[i + 1].embedding,
                          payload |-> [text |-> call'.records[i + 1].text]]}
              /\ \A p \in Old : p.id >= N => p \in New
              /\ \A p \in New : p.id >= N => p \in Old
              /\ Cardinality(New) = Max(M, N)]_vars

\* C8 witness: a shorter list was ingested over a longer one with other
\* texts: the collection holds more points than the call uploaded.
C8_Witness ==
    /\ IngestReturned
    /\ Len(call.records) = 2
    /\ Cardinality(Stored) = 4
    /\ \E p \in Stored : p.id = 3 /\ p.payload.text # call.records[1].text

(***************************************************************************)
(* SpecThreads: get_transformer_model statement by statement, called from  *)
(* several threads.  In mode "serial" a thread calls only while no other   *)
(* thread is inside the function, as in the demonstrated usage; in mode    *)
(* "concurrent" calls overlap freely.  No statement takes a lock.          *)
(***************************************************************************)
Threads == 1..NumThreads

\* faulty variant: the check always passes
NoneCheck_always(tm) == TRUE

\* if transformer_model is None
NoneCheck(tm) == tm = None

Inside(t) == th[t].pc \in {"check", "construct", "assign", "return"}

OnlyThreadsChange == UNCHANGED <<qdrant, pc, call, prep, tool, mode, aio>>

InitThreads ==
    /\ InitModel
    /\ qdrant = <<>>
    /\ pc = "threads"
    /\ call = NoCall
    /\ prep = NoPrep
    /\ tool = NoTool
    /\ mode \in {"serial", "concurrent"}
    /\ th = [t \in Threads |-> [pc |-> "idle", sawNone |-> FALSE, tmp |-> None, ret |-> None]]
    /\ aio = NoLoop

\* thread t calls get_transformer_model()
T_Call(t) ==
    /\ th[t].pc \in {"idle", "done"}
    /\ mode = "serial" => \A u \in Threads : ~Inside(u)
    /\ th' = [th EXCEPT ![t] = [pc |-> "check", sawNone |-> FALSE, tmp |-> None, ret |-> None]]
    /\ UNCHANGED <<transformer_model, constructed, handles>>
    /\ OnlyThreadsChange

\* if transformer_model is None:
T_Check(t) ==
    /\ th[t].pc = "check"
    /\ th' = [th EXCEPT ![t].pc = IF NoneCheck(transformer_model) THEN "construct" ELSE "return",
                         ![t].sawNone = NoneCheck(transformer_model)]
    /\ UNCHANGED <<transformer_model, constructed, handles>>
    /\ OnlyThreadsChange

\* SentenceTransformer("all-mpnet-base-v2"): a new model object
T_Construct(t) ==
    /\ th[t].pc = "construct"
    /\ constructed' = constructed + 1
    /\ th' = [th EXCEPT ![t].pc = "assign", ![t].tmp = constructed + 1]
    /\ UNCHANGED <<transformer_model, handles>>
    /\ OnlyThreadsChange

\* transformer_model = <the new object>
T_Assign(t) ==
    /\ th[t].pc = "assign"
    /\ transformer_model' = th[t].tmp
    /\ th' = [th EXCEPT ![t].pc = "return"]
    /\ UNCHANGED <<constructed, handles>>
    /\ OnlyThreadsChange

\* return transformer_model: the global is read again
T_Return(t) ==
    /\ th[t].pc = "return"
    /\ th' = [th EXCEPT ![t].pc = "done", ![t].ret = transformer_model]
    /\ handles' = [first |-> FirstHandle(handles.first, transformer_model),
                   last |-> transformer_model]
    /\ UNCHANGED <<transformer_model, constructed>>
    /\ OnlyThreadsChange

NextThreads ==
    \E t \in Threads :
        \/ T_Call(t)
        \/ T_Check(t)
        \/ T_Construct(t)
        \/ T_Assign(t)
        \/ T_Return(t)

SpecThreads == InitThreads /\ [][NextThreads]_vars

\* two callers both passed the None check, the model was constructed more
\* than once, and the two callers received different handles
RaceState ==
    /\ constructed > 1
    /\ \E t, u \in Threads :
          /\ th[t].pc = "done" /\ th[u].pc = "done"
          /\ th[t].sawNone /\ th[u].sawNone
          /\ th[t].ret # th[u].ret

\* C9: the None check and the assignment are separate steps with no lock.
\* With one caller at a time no caller passes the None check once the handle
\* is set, the model is constructed at most once and all callers receive one
\* handle, so the race state is unreachable; it is reachable only with
\* concurrent callers (the witness).
C9_RaceNeedsConcurrency ==
    /\ mode = "serial" =>
          /\ ~RaceState
          /\ constructed <= 1
          /\ \A t \in Threads : th[t].pc = "done" => th[t].ret = handles.first
          /\ \A t \in Threads : th[t].sawNone => th[t].tmp \in {None, 1}
    /\ constructed <= Cardinality(Threads)
    /\ \A t \in Threads : th[t].pc \in {"assign", "return", "done"} /\ th[t].sawNone
                              => th[t].tmp # None

\* C9 witness: the race state, reached with concurrent callers.
C9_Witness == RaceState /\ mode = "concurrent"

(***************************************************************************)
(* SpecAsync: async_things.py.  The module builds the three coroutines,    *)
(* asyncio.run(main()) runs them under gather on one event loop, and the   *)
(* script then reads some.txt.                                             *)
(*                                                                         *)
(* The loop keeps a FIFO of ready callbacks and a set of timers.  One      *)
(* iteration waits while nothing is ready, moves the due timers to the     *)
(* FIFO and runs the callbacks that are ready at that moment; a callback   *)
(* takes 0..MaxStepTime seconds.                                           *)
(***************************************************************************)
Payloads == 0..(NumCalls - 1)

Event(ev, payload) == [ev |-> ev, payload |-> payload]

Handle(kind, task) == [kind |-> kind, task |-> task]

InitLoop ==
    [at |-> "tasks", tasks |-> <<>>, co |-> [i \in Payloads |-> "none"],
     ready |-> <<>>, timers |-> {}, now |-> 0, todo |-> 0, nfinished |-> 0,
     out |-> <<>>]

InitAsync ==
    /\ InitModel
    /\ qdrant = <<>>
    /\ pc = "async"
    /\ call = NoCall
    /\ prep = NoPrep
    /\ tool = NoTool
    /\ mode = "serial"
    /\ th = NoThreads
    /\ aio = InitLoop

OnlyLoopChanges ==
    UNCHANGED <<transformer_model, constructed, handles, qdrant, pc, call, prep,
                tool, mode, th>>

\* tasks.append(some_api_call(i)): a coroutine object that has not started
AppendTask ==
    /\ aio.at = "tasks"
    /\ Len(aio.tasks) < NumCalls
    /\ LET i == Len(aio.tasks)
       IN  aio' = [aio EXCEPT !.tasks = Append(@, i), !.co[i] = "created"]
    /\ OnlyLoopChanges

\* asyncio.run(main()): a new loop with main's first step ready
AsyncRun ==
    /\ aio.at = "tasks"
    /\ Len(aio.tasks) = NumCalls
    /\ aio' = [aio EXCEPT !.at = "loop", !.ready = <<Handle("main", -1)>>]
    /\ OnlyLoopChanges

\* await asyncio.gather(*tasks): a task per coroutine, in order, each with
\* its first step scheduled; main waits for the gathering future
gather(a) ==
    [a EXCEPT !.ready = @ \o [k \in 1..Len(a.tasks) |-> Handle("step", a.tasks[k])]]

\* faulty variant: the sleep blocks, the call never yields to the loop
some_api_call_blocking(a, payload) ==
    [a EXCEPT !.out = @ \o <<Event("start", payload), Event("end", payload)>>,
              !.co[payload] = "done",
              !.ready = Append(@, Handle("done", payload))]

\* some_api_call up to its await: print start, then sleep on a timer
some_api_call(a, payload) ==
    [a EXCEPT !.out = Append(@, Event("start", payload)),
              !.co[payload] = "sleeping",
              !.timers = @ \cup {[when |-> a.now + SleepSeconds, task |-> payload]}]

\* some_api_call after its await: print end and finish
some_api_call_resumed(a, payload) ==
    [a EXCEPT !.out = Append(@, Event("end", payload)),
              !.co[payload] = "done",
              !.ready = Append(@, Handle("done", payload))]

\* gather's callback for a finished child: the last one wakes main
gather_done(a) ==
    [a EXCEPT !.nfinished = @ + 1,
              !.ready = IF a.nfinished + 1 = Len(a.tasks)
                        THEN Append(@, Handle("main_wakeup", -1)) ELSE @]

\* what running the callback h does
RunCallback(a, h) ==
    CASE h.kind = "main"        -> gather(a)
      [] h.kind = "step"        -> some_api_call(a, h.task)
      [] h.kind = "timer"       -> [a EXCEPT !.ready = Append(@, Handle("wakeup", h.task))]
      [] h.kind = "wakeup"      -> some_api_call_resumed(a, h.task)
      [] h.kind = "done"        -> gather_done(a)
      [] h.kind = "main_wakeup" -> [a EXCEPT !.at = "stopping"]

\* the timers of S as callbacks, earliest first
RECURSIVE TimerHandles(_)
TimerHandles(S) ==
    IF S = {} THEN <<>>
    ELSE LET t == CHOOSE x \in S : \A y \in S :
                     x.when < y.when \/ (x.when = y.when /\ x.task <= y.task)
         IN  <<Handle("timer", t.task)>> \o TimerHandles(S \ {t})

\* one iteration of the loop begins: wait for the first timer when nothing
\* is ready, move the due timers to the FIFO, and take what is ready now
LoopIteration ==
    /\ aio.at = "loop"
    /\ aio.todo = 0
    /\ aio.ready # <<>> \/ aio.timers # {}
    /\ LET first == CHOOSE t \in aio.timers : \A u \in aio.timers : t.when <= u.when
           now   == IF aio.ready = <<>> /\ first.when > aio.now
                    THEN first.when ELSE aio.now
           due   == {t \in aio.timers : t.when <= now}
           ready == aio.ready \o TimerHandles(due)
       IN  aio' = [aio EXCEPT !.now = now, !.timers = @ \ due,
                              !.ready = ready, !.todo = Len(ready)]
    /\ OnlyLoopChanges

\* the loop runs the next callback of this iteration, which takes d seconds
RunHandle(d) ==
    /\ aio.at = "loop"
    /\ aio.todo > 0
    /\ LET a == RunCallback([aio EXCEPT !.ready = Tail(@), !.todo = @ - 1],
                            Head(aio.ready))
       IN  aio' = [a EXCEPT !.now = @ + d]
    /\ OnlyLoopChanges

\* main has returned: run_until_complete stops the loop, asyncio.run returns
AsyncRunReturns ==
    /\ aio.at = "stopping"
    /\ aio' = [aio EXCEPT !.at = "closed", !.todo = 0]
    /\ OnlyLoopChanges

\* with open("some.txt", 'r') as f: print(f.read())
ReadFile ==
    /\ aio.at = "closed"
    /\ aio' = [aio EXCEPT !.at = "read", !.out = Append(@, Event("file", -1))]
    /\ OnlyLoopChanges

\* some.txt is missing: open raises FileNotFoundError
ReadFileFails ==
    /\ aio.at = "closed"
    /\ aio' = [aio EXCEPT !.at = "raised"]
    /\ OnlyLoopChanges

NextAsync ==
    \/ AppendTask
    \/ AsyncRun
    \/ LoopIteration
    \/ \E d \in 0..MaxStepTime : RunHandle(d)
    \/ AsyncRunReturns
    \/ ReadFile
    \/ ReadFileFails

SpecAsync == InitAsync /\ [][NextAsync]_vars

\* the positions in the output at which the event is printed
Printed(ev, payload) ==
    {k \in 1..Len(aio.out) : aio.out[k] = Event(ev, payload)}

Ends == {k \in 1..Len(aio.out) : aio.out[k].ev = "end"}

\* C10: every call prints start before any call prints end; each call
\* prints start at most once and then end at most once, and exactly once of
\* each by the time asyncio.run has returned; some.txt is read only after
\* that, when all three calls have printed end.
C10_GatherInterleaves ==
    /\ \A i \in Payloads :
          /\ Cardinality(Printed("start", i)) <= 1
          /\ Cardinality(Printed("end", i)) <= 1
          /\ \A e \in Printed("end", i) : \E b \in Printed("start", i) : b < e
          /\ \A e \in Ends : \E b \in Printed("start", i) : b < e
    /\ aio.at \in {"stopping", "closed", "read", "raised"} =>
          \A i \in Payloads :
              Cardinality(Printed("start", i)) = 1 /\ Cardinality(Printed("end", i)) = 1
    /\ \A f \in Printed("file", -1) :
          /\ aio.at = "read"
          /\ f = Len(aio.out)
          /\ \A i \in Payloads : \E e \in Printed("end", i) : e < f

\* C10 witness: the script ran to its end: three starts, three ends, the file.
C10_Witness ==
    /\ aio.at = "read"
    /\ Len(aio.out) = 2 * NumCalls + 1
    /\ aio.out[NumCalls].ev = "start" /\ aio.out[NumCalls + 1].ev = "end"

=============================================================================
